---- MODULE Spec2Model ----
(***************************************************************************)
(* Model of utoipa-gen/src/response.rs: the parser of one response entry   *)
(* of #[utoipa::path(responses = [...])] (Response::parse, parse_next,     *)
(* Header::parse) and the emitter of the Responses fragment                *)
(* (Responses::to_tokens, new_header_tokens).                              *)
(*                                                                         *)
(* A token stream is a sequence of token trees.  A token tree is a record  *)
(*   [k, s, n, ts]  with k the kind ("ident", "punct", "int", "str",       *)
(* "bracket", "paren"), s the identifier / punctuation / string value,     *)
(* n the value of an integer literal and ts the content of a group.        *)
(***************************************************************************)
EXTENDS Integers, Sequences, FiniteSets

VARIABLES
    input,      \* token stream of the response entry handed to Response::parse
    pos,        \* number of tokens of input the cursor has consumed
    pc,         \* position of the control flow (see PcValues)
    key,        \* `name`: the field key read by the current loop iteration
    response,   \* `response`: the Response record under construction
    header,     \* the Header record a parse of one header sub-group returned
    err,        \* the error the parse ended in (NoError while there is none)
    records,    \* the slice of Response records handed to Responses::to_tokens
    ei,         \* number of records the emitter has folded into `out`
    out         \* `tokens`: the emitted call chain

vars == <<input, pos, pc, key, response, header, err, records, ei, out>>

PcValues ==
    {"key", "eq", "value", "sep", "done", "failed",     \* Response::parse
     "header", "header_done", "header_failed",          \* Header::parse
     "emit", "each", "finished"}                        \* Responses::to_tokens

-----------------------------------------------------------------------------
(* Bounds of the model. *)

\* Greatest number of field pieces an input entry is built from.
MaxFields == 2

\* Greatest number of Response records handed directly to the emitter.
MaxRecords == 2

\* Greatest length of a free-form token stream handed to Header::parse.
MaxHeaderTokens == 5

-----------------------------------------------------------------------------
(* Token trees. *)

Tok(k, s, n, ts) == [k |-> k, s |-> s, n |-> n, ts |-> ts]

Ident(s) == Tok("ident", s, 0, <<>>)

Punct(s) == Tok("punct", s, 0, <<>>)

LitInt(n) == Tok("int", "", n, <<>>)

LitStr(s) == Tok("str", s, 0, <<>>)

Bracket(ts) == Tok("bracket", "", 0, ts)

Paren(ts) == Tok("paren", "", 0, ts)

EqTok == Punct("=")

CommaTok == Punct(",")

\* input.peek(..) / the kind test of input.parse::<..>() at cursor p (p tokens consumed).
PeekKind(ts, p, k) == p + 1 <= Len(ts) /\ ts[p + 1].k = k

PeekPunct(ts, p, s) == PeekKind(ts, p, "punct") /\ ts[p + 1].s = s

\* A group token of any delimiter (proc_macro2::Group).
IsGroup(t) == t.k \in {"bracket", "paren"}

-----------------------------------------------------------------------------
(* Records. *)

\* Option<MediaType>
NoMedia == [some |-> FALSE, is_array |-> FALSE, ty |-> ""]

SomeMedia(is_array, ty) == [some |-> TRUE, is_array |-> is_array, ty |-> ty]

\* Option<String>
NoString == [some |-> FALSE, v |-> ""]

SomeString(s) == [some |-> TRUE, v |-> s]

\* Header { name, ..Default::default() }
NewHeader(name) == [name |-> name, media_type |-> NoMedia, description |-> NoString]

\* Response::default()
DefaultResponse ==
    [status_code |-> 0, description |-> "", response_type |-> NoMedia,
     content_type |-> NoString, headers |-> <<>>]

-----------------------------------------------------------------------------
(* Errors. *)

NoError == [kind |-> "None", msg |-> "", ident |-> "", vocab |-> <<>>, sub |-> 0]

\* An error: its class, its message, the identifier it names, the vocabulary it
\* lists and, for an error of a header sub-group, the index of the sub-group.
Error(kind, msg, ident, vocab) ==
    [kind |-> kind, msg |-> msg, ident |-> ident, vocab |-> vocab, sub |-> 0]

ResponseKeys == <<"status", "description", "body", "content_type", "headers">>

HeaderKeys == <<"description">>

MsgNoIdent == "unparseable response expected to find Ident"

MsgNoEq == "expected euqals sign token (=)"

MsgHeadersList == "expected headers in brackets [..]"

MsgHeaderName == "unexpected attribute for Header name, expected LitStr"

MsgUnexpectedAttribute == "unexpected attribute"

MsgUnexpectedToken == "unexpected token"

SeqRange(s) == {s[i] : i \in DOMAIN s}

-----------------------------------------------------------------------------
(* The type classifier (crate::MediaType, crate::property::Property), which  *)
(* response.rs calls and does not define.                                   *)

PrimitiveTypes == {"i32", "u64", "bool", "String"}

\* component.component_type.is_primitive()
IsPrimitive(ty) == ty \in PrimitiveTypes

\* Property::new(is_array, type)
Property(is_array, ty) == [is_array |-> is_array, ty |-> ty]

\* input.parse::<MediaType>() at cursor p:  type_expr := IDENT | "[" IDENT "]"
ParseMediaType(ts, p) ==
    IF PeekKind(ts, p, "ident")
    THEN [ok |-> TRUE, p |-> p + 1, val |-> SomeMedia(FALSE, ts[p + 1].s)]
    ELSE IF /\ PeekKind(ts, p, "bracket")
            /\ Len(ts[p + 1].ts) = 1
            /\ ts[p + 1].ts[1].k = "ident"
         THEN [ok |-> TRUE, p |-> p + 1, val |-> SomeMedia(TRUE, ts[p + 1].ts[1].s)]
         ELSE [ok |-> FALSE, p |-> p, val |-> NoMedia]

-----------------------------------------------------------------------------
(* Header::parse, as the sequence of its statements over the token stream   *)
(* of one header sub-group.  A parse state is [ok, p, header, err].         *)

HeaderFail(p, e) == [ok |-> FALSE, p |-> p, header |-> NewHeader(""), err |-> e]

\* let mut header = Header { name: input.parse::<LitStr>()..., ..Default::default() }
HeaderName(ts) ==
    IF PeekKind(ts, 0, "str")
    THEN [ok |-> TRUE, p |-> 1, header |-> NewHeader(ts[1].s), err |-> NoError]
    ELSE HeaderFail(0, Error("SyntaxError", MsgHeaderName, "", <<>>))

\* if input.peek(Token![=]) { parse `=`; header.media_type = Some(parse MediaType) }
HeaderType(st, ts) ==
    IF ~st.ok \/ ~PeekPunct(ts, st.p, "=")
    THEN st
    ELSE LET m == ParseMediaType(ts, st.p + 1)
         IN  IF m.ok
             THEN [st EXCEPT !.p = m.p, !.header.media_type = m.val]
             ELSE HeaderFail(st.p + 1,
                             Error("MalformedType", "unparseable MediaType", "", <<>>))

\* if input.peek(Token![,]) { parse `,` }
HeaderComma(st, ts) ==
    IF st.ok /\ PeekPunct(ts, st.p, ",")
    THEN [st EXCEPT !.p = @ + 1]
    ELSE st

\* Variant: any identifier is taken for the description key.
HeaderDescription_AnyKey(st, ts) ==
    IF ~st.ok \/ ~PeekKind(ts, st.p, "ident")
    THEN st
    ELSE LET p1 == st.p + 1
             p2 == IF PeekPunct(ts, p1, "=") THEN p1 + 1 ELSE p1
         IN  IF PeekKind(ts, p2, "str")
             THEN [st EXCEPT !.p = p2 + 1,
                             !.header.description = SomeString(ts[p2 + 1].s)]
             ELSE HeaderFail(p2, Error("SyntaxError", "expected string literal",
                                       "", <<>>))

\* if input.peek(syn::Ident) { ... description ... else Err(unexpected attribute) }
HeaderDescription(st, ts) ==
    IF ~st.ok \/ ~PeekKind(ts, st.p, "ident")
    THEN st
    ELSE LET id == ts[st.p + 1].s
             p1 == st.p + 1
             p2 == IF PeekPunct(ts, p1, "=") THEN p1 + 1 ELSE p1
         IN  IF id = "description"
             THEN IF PeekKind(ts, p2, "str")
                  THEN [st EXCEPT !.p = p2 + 1,
                                  !.header.description = SomeString(ts[p2 + 1].s)]
                  ELSE HeaderFail(p2, Error("SyntaxError", "expected string literal",
                                            "", <<>>))
             ELSE HeaderFail(p1, Error("UnknownField", MsgUnexpectedAttribute,
                                       id, HeaderKeys))

\* <Header as Parse>::parse: the four statements in order, each run once on the
\* state the one before it left (s1, s2, s3 are bound to values).
HeaderParse(ts) ==
    CHOOSE st \in
        { HeaderDescription(s3, ts) :
            s3 \in { HeaderComma(s2, ts) :
                s2 \in { HeaderType(s1, ts) :
                    s1 \in {HeaderName(ts)} } } } : TRUE

\* syn::parse2::<Header>(group.stream()): the parse, then every token must be consumed
Parse2Header(ts) ==
    LET st == HeaderParse(ts)
    IN  IF st.ok /\ st.p < Len(ts)
        THEN HeaderFail(st.p, Error("SyntaxError", MsgUnexpectedToken, "", <<>>))
        ELSE st

-----------------------------------------------------------------------------
(* The headers arm of Response::parse.                                      *)

\* Punctuated::<Group, Comma>::parse_terminated(&content), from cursor p with the
\* groups read so far: Group (Comma Group)* [Comma], or nothing.
RECURSIVE ParseTerminated(_, _, _)
ParseTerminated(ts, p, groups) ==
    IF p >= Len(ts)
    THEN [ok |-> TRUE, groups |-> groups, p |-> p]
    ELSE IF ~IsGroup(ts[p + 1])
         THEN [ok |-> FALSE, groups |-> groups, p |-> p]
         ELSE LET gs == Append(groups, ts[p + 1])
              IN  IF p + 1 >= Len(ts)
                  THEN [ok |-> TRUE, groups |-> gs, p |-> p + 1]
                  ELSE IF ~PeekPunct(ts, p + 1, ",")
                       THEN [ok |-> FALSE, groups |-> gs, p |-> p + 1]
                       ELSE ParseTerminated(ts, p + 2, gs)

\* The closure handed to parse_next: bracketed!(content in input), parse_terminated
HeaderGroups(ts, p) ==
    IF PeekKind(ts, p, "bracket")
    THEN ParseTerminated(ts[p + 1].ts, 0, <<>>)
    ELSE [ok |-> FALSE, groups |-> <<>>, p |-> 0]

\* Variant: a sub-group that fails to parse is left out.
MapHeaders_SkipFailed(groups) ==
    LET res == [i \in 1..Len(groups) |-> Parse2Header(groups[i].ts)]
        IsOk(r) == r.ok
        kept == SelectSeq(res, IsOk)
    IN  [ok |-> TRUE, headers |-> [i \in 1..Len(kept) |-> kept[i].header],
         err |-> NoError]

\* groups.into_iter().map(|group| syn::parse2::<Header>(..).unwrap_or_abort()).collect()
MapHeaders(groups) ==
    LET res == [i \in 1..Len(groups) |-> Parse2Header(groups[i].ts)]
        bad == {i \in 1..Len(groups) : ~res[i].ok}
    IN  IF bad = {}
        THEN [ok |-> TRUE, headers |-> [i \in 1..Len(groups) |-> res[i].header],
              err |-> NoError]
        ELSE LET i == CHOOSE j \in bad : \A l \in bad : j <= l
             IN  [ok |-> FALSE, headers |-> <<>>, err |-> [res[i].err EXCEPT !.sub = i]]

\* The value of the headers field at cursor p: the list, then each sub-group
HeadersValue(ts, p) ==
    LET gs == HeaderGroups(ts, p)
    IN  IF gs.ok
        THEN MapHeaders(gs.groups)
        ELSE [ok |-> FALSE, headers |-> <<>>,
              err |-> Error("SyntaxError", MsgHeadersList, "", <<>>)]


-----------------------------------------------------------------------------
(* The emitter: Responses::to_tokens and new_header_tokens.  The emitted    *)
(* token stream is kept as a chain of calls [call, key, arg].               *)

NoArg == <<>>

Call(f, k, a) == [call |-> f, key |-> k, arg |-> a]

Digit(d) ==
    CASE d = 0 -> "0" [] d = 1 -> "1" [] d = 2 -> "2" [] d = 3 -> "3" [] d = 4 -> "4"
      [] d = 5 -> "5" [] d = 6 -> "6" [] d = 7 -> "7" [] d = 8 -> "8" [] d = 9 -> "9"

RECURSIVE NatToString(_)
NatToString(n) == IF n < 10 THEN Digit(n) ELSE NatToString(n \div 10) \o Digit(n % 10)

\* response.status_code.to_string()
ToString(n) == IF n < 0 THEN "-" \o NatToString(-n) ELSE NatToString(n)

\* Variant: the inferred type of a primitive body wins over the explicit one.
ContentType_InferredFirst(r) ==
    IF IsPrimitive(r.response_type.ty)
    THEN "text/plain"
    ELSE IF r.content_type.some THEN r.content_type.v ELSE "application/json"

\* The content type of a response with a body: explicit, else inferred.
ContentType(r) ==
    IF r.content_type.some
    THEN r.content_type.v
    ELSE IF IsPrimitive(r.response_type.ty) THEN "text/plain" ELSE "application/json"

\* if let Some(ref response_body_type) = response.response_type { .with_content(..) }
ContentTokens(r) ==
    IF r.response_type.some
    THEN <<Call("with_content", ContentType(r),
                Property(r.response_type.is_array, r.response_type.ty))>>
    ELSE <<>>

\* Variant: the written type is ignored.
NewHeaderTokens_AlwaysDefault(h) ==
    <<Call("Header::default", "", NoArg)>>
    \o (IF h.description.some
        THEN <<Call("with_description", h.description.v, NoArg)>>
        ELSE <<>>)

\* new_header_tokens(header)
NewHeaderTokens(h) ==
    (IF h.media_type.some
     THEN <<Call("Header::new", "", Property(h.media_type.is_array, h.media_type.ty))>>
     ELSE <<Call("Header::default", "", NoArg)>>)
    \o (IF h.description.some
        THEN <<Call("with_description", h.description.v, NoArg)>>
        ELSE <<>>)

\* Variant: the headers are attached last first.
HeaderAttachments_Reversed(hs) ==
    [i \in 1..Len(hs) |->
        Call("with_header", hs[Len(hs) + 1 - i].name, NewHeaderTokens(hs[Len(hs) + 1 - i]))]

\* response.headers.iter().for_each(|header| .with_header(#name, #header_tokens))
HeaderAttachments(hs) ==
    [i \in 1..Len(hs) |-> Call("with_header", hs[i].name, NewHeaderTokens(hs[i]))]

\* response_tokens of one record
ResponseTokens(r) ==
    <<Call("Response::new", r.description, NoArg)>>
    \o ContentTokens(r) \o HeaderAttachments(r.headers)

\* tokens.extend(quote! { .with_response(#status, #response_tokens) })
ExtendWithResponse(tokens, r) ==
    Append(tokens, Call("with_response", ToString(r.status_code), ResponseTokens(r)))

-----------------------------------------------------------------------------
(* Response::parse, one action per statement of its loop.                   *)

Fail(e) == pc' = "failed" /\ err' = e

\* Variant: a field that already holds a value keeps it.
Assign_FirstWins(r, field, value) ==
    IF r[field] = DefaultResponse[field] THEN [r EXCEPT ![field] = value] ELSE r

\* response.<field> = value
Assign(r, field, value) == [r EXCEPT ![field] = value]

\* let ident = input.parse::<Ident>()...; match name { ..., _ => return Err(..) }
ReadKey ==
    /\ pc = "key"
    /\ IF PeekKind(input, pos, "ident")
       THEN LET name == input[pos + 1].s
            IN  /\ pos' = pos + 1
                /\ key' = name
                /\ IF name \in SeqRange(ResponseKeys)
                   THEN pc' = "eq" /\ err' = err
                   ELSE Fail(Error("UnknownField", MsgUnexpectedAttribute,
                                   name, ResponseKeys))
       ELSE /\ Fail(Error("SyntaxError", MsgNoIdent, "", <<>>))
            /\ UNCHANGED <<pos, key>>
    /\ UNCHANGED <<input, response, header, records, ei, out>>

\* Variant: the `=` is consumed when present and not required.
ParseEq_Optional ==
    /\ pc = "eq"
    /\ pos' = (IF PeekPunct(input, pos, "=") THEN pos + 1 ELSE pos)
    /\ pc' = "value"
    /\ UNCHANGED <<input, key, response, header, err, records, ei, out>>

\* parse_next: input.parse::<Token![=]>().expect_or_abort(..), then next()
ParseEq ==
    /\ pc = "eq"
    /\ IF PeekPunct(input, pos, "=")
       THEN pos' = pos + 1 /\ pc' = "value" /\ err' = err
       ELSE Fail(Error("SyntaxError", MsgNoEq, "", <<>>)) /\ pos' = pos
    /\ UNCHANGED <<input, key, response, header, records, ei, out>>

\* A field's value parsed: store it, go on to the separator.
Store(field, value, p) ==
    /\ response' = Assign(response, field, value)
    /\ pos' = p
    /\ pc' = "sep"
    /\ err' = err

Abort(e) == Fail(e) /\ UNCHANGED <<pos, response>>

\* "status" => response.status_code = parse LitInt, base10_parse
ParseStatus ==
    /\ pc = "value" /\ key = "status"
    /\ IF PeekKind(input, pos, "int")
       THEN Store("status_code", input[pos + 1].n, pos + 1)
       ELSE Abort(Error("SyntaxError", "expected integer literal", "", <<>>))
    /\ UNCHANGED <<input, key, header, records, ei, out>>

\* "description" => response.description = parse LitStr
ParseDescription ==
    /\ pc = "value" /\ key = "description"
    /\ IF PeekKind(input, pos, "str")
       THEN Store("description", input[pos + 1].s, pos + 1)
       ELSE Abort(Error("SyntaxError", "expected string literal", "", <<>>))
    /\ UNCHANGED <<input, key, header, records, ei, out>>

\* Variant: the body arm also stores the content type it infers.
ParseBody_StoresContentType ==
    /\ pc = "value" /\ key = "body"
    /\ LET m == ParseMediaType(input, pos)
       IN  IF m.ok
           THEN /\ response' =
                     [response EXCEPT
                        !.response_type = m.val,
                        !.content_type =
                           IF @.some THEN @
                           ELSE SomeString(IF IsPrimitive(m.val.ty)
                                           THEN "text/plain"
                                           ELSE "application/json")]
                /\ pos' = m.p /\ pc' = "sep" /\ err' = err
           ELSE Abort(Error("MalformedType", "unparseable MediaType", "", <<>>))
    /\ UNCHANGED <<input, key, header, records, ei, out>>

\* "body" => response.response_type = Some(parse MediaType)
ParseBody ==
    /\ pc = "value" /\ key = "body"
    /\ LET m == ParseMediaType(input, pos)
       IN  IF m.ok
           THEN Store("response_type", m.val, m.p)
           ELSE Abort(Error("MalformedType", "unparseable MediaType", "", <<>>))
    /\ UNCHANGED <<input, key, header, records, ei, out>>

\* "content_type" => response.content_type = Some(parse LitStr)
ParseContentType ==
    /\ pc = "value" /\ key = "content_type"
    /\ IF PeekKind(input, pos, "str")
       THEN Store("content_type", SomeString(input[pos + 1].s), pos + 1)
       ELSE Abort(Error("SyntaxError", "expected string literal", "", <<>>))
    /\ UNCHANGED <<input, key, header, records, ei, out>>

\* "headers" => response.headers = the bracketed groups, each parsed as a Header
ParseHeaders ==
    /\ pc = "value" /\ key = "headers"
    /\ LET hv == HeadersValue(input, pos)
       IN  IF hv.ok
           THEN Store("headers", hv.headers, pos + 1)
           ELSE Abort(hv.err)
    /\ UNCHANGED <<input, key, header, records, ei, out>>

\* Variant: the comma is looked at and left in the stream.
AfterComma_PeekOnly(ts, p) == p

\* The cursor after `if input.peek(Token![,]) { input.parse::<Token![,]>() }`
AfterComma(ts, p) == IF PeekPunct(ts, p, ",") THEN p + 1 ELSE p

\* optional `,`; if input.is_empty() { break } ... Ok(response)
Separator ==
    /\ pc = "sep"
    /\ pos' = AfterComma(input, pos)
    /\ pc' = IF pos' >= Len(input) THEN "done" ELSE "key"
    /\ UNCHANGED <<input, key, response, header, err, records, ei, out>>

\* The caller hands the parsed record to the emitter: Responses(&[response])
Handoff ==
    /\ pc = "done"
    /\ records' = <<response>>
    /\ pc' = "emit"
    /\ UNCHANGED <<input, pos, key, response, header, err, ei, out>>

-----------------------------------------------------------------------------
(* Header::parse on the token stream of one header sub-group.               *)

\* syn::parse2::<Header>(stream): Ok(header) or Err(error)
ParseHeaderEntry ==
    /\ pc = "header"
    /\ LET st == Parse2Header(input)
       IN  /\ pos' = st.p
           /\ header' = st.header
           /\ err' = st.err
           /\ pc' = IF st.ok THEN "header_done" ELSE "header_failed"
    /\ UNCHANGED <<input, key, response, records, ei, out>>

-----------------------------------------------------------------------------
(* Responses::to_tokens, one action per statement.                          *)

\* tokens.extend(quote! { utoipa::openapi::Responses::new() })
EmitNew ==
    /\ pc = "emit"
    /\ out' = Append(out, Call("Responses::new", "", NoArg))
    /\ ei' = 0
    /\ pc' = "each"
    /\ UNCHANGED <<input, pos, key, response, header, err, records>>

\* self.0.iter().for_each(|response| { ... }): the closure on the next record
EmitResponse ==
    /\ pc = "each"
    /\ ei < Len(records)
    /\ out' = ExtendWithResponse(out, records[ei + 1])
    /\ ei' = ei + 1
    /\ UNCHANGED <<input, pos, pc, key, response, header, err, records>>

\* the iteration is over: to_tokens returns
EmitReturn ==
    /\ pc = "each"
    /\ ei = Len(records)
    /\ pc' = "finished"
    /\ UNCHANGED <<input, pos, key, response, header, err, records, ei, out>>


-----------------------------------------------------------------------------
(* The inputs of Response::parse: entries built from field pieces.  A piece *)
(* is a well-formed field followed or not by a comma, or a malformed one.   *)

Field(k, v) == <<Ident(k), EqTok, v>>

HdrPlain == Paren(<<LitStr("x-token")>>)

HdrFull ==
    Paren(<<LitStr("x-token"), EqTok, Ident("String"), CommaTok,
            Ident("description"), EqTok, LitStr("desc")>>)

HdrArray == Paren(<<LitStr("y"), EqTok, Bracket(<<Ident("i32")>>)>>)

HdrNoComma == Paren(<<LitStr("y"), Ident("description"), LitStr("d")>>)

HdrBareComma == Paren(<<LitStr("z"), CommaTok>>)

HdrBogus == Paren(<<LitStr("x"), CommaTok, Ident("bogus"), EqTok, LitStr("y")>>)

HdrNoName == Paren(<<>>)

HdrBadType == Paren(<<LitStr("x"), EqTok, LitInt(5)>>)

HdrBadDescription ==
    Paren(<<LitStr("x"), CommaTok, Ident("description"), EqTok, LitInt(5)>>)

HdrTrailing ==
    Paren(<<LitStr("x"), CommaTok, Ident("description"), LitStr("d"), CommaTok>>)

\* Contents of a headers bracket group that the parser gets through.
PassingHeaderLists ==
    { <<>>,
      <<HdrFull>>,
      <<HdrPlain, CommaTok, HdrArray, CommaTok>>,
      <<HdrNoComma, CommaTok, HdrBareComma>> }

\* Contents of a headers bracket group that end the parse.
FailingHeaderLists ==
    { <<HdrPlain, CommaTok, HdrBogus>>,
      <<HdrBogus, CommaTok, LitInt(5)>>,
      <<HdrPlain, HdrArray>>,
      <<HdrNoName>>,
      <<HdrBadType, CommaTok, HdrBogus>>,
      <<HdrPlain, CommaTok, HdrBadDescription>>,
      <<HdrTrailing>> }

PassingFields ==
    { Field("status", LitInt(200)),
      Field("status", LitInt(404)),
      Field("description", LitStr("a")),
      Field("description", LitStr("b")),
      Field("body", Ident("i32")),
      Field("body", Bracket(<<Ident("Foo")>>)),
      Field("content_type", LitStr("text/xml")) }
    \cup { Field("headers", Bracket(l)) : l \in PassingHeaderLists }

FailingFields ==
    { <<CommaTok>>,
      <<LitInt(5)>>,
      Field("foo", LitInt(1)),
      <<Ident("foo"), LitInt(1)>>,
      <<Ident("status"), LitInt(200)>>,
      <<Ident("description"), LitStr("a")>>,
      <<Ident("body"), Ident("Foo")>>,
      <<Ident("content_type"), LitStr("text/xml")>>,
      <<Ident("headers"), Bracket(<<HdrPlain>>)>>,
      Field("status", LitStr("a")),
      Field("description", LitInt(1)),
      Field("body", LitInt(5)),
      Field("content_type", Ident("json")),
      Field("headers", HdrPlain) }
    \cup { Field("headers", Bracket(l)) : l \in FailingHeaderLists }

Pieces ==
    { f \o sep : f \in PassingFields, sep \in {<<>>, <<CommaTok>>} } \cup FailingFields

RECURSIVE EntriesOf(_)
EntriesOf(n) ==
    IF n = 0
    THEN {<<>>}
    ELSE LET shorter == EntriesOf(n - 1)
         IN  shorter \cup {e \o piece : e \in shorter, piece \in Pieces}

Entries == EntriesOf(MaxFields)

-----------------------------------------------------------------------------
(* The inputs of Header::parse: every token stream up to MaxHeaderTokens    *)
(* over a small alphabet, and the sub-groups used above.                    *)

HeaderAlphabet ==
    { LitStr("x"), EqTok, CommaTok, Ident("description"), Ident("bogus"),
      Bracket(<<Ident("i32")>>), LitInt(5) }

RECURSIVE StreamsOf(_)
StreamsOf(n) ==
    IF n = 0
    THEN {<<>>}
    ELSE LET shorter == StreamsOf(n - 1)
         IN  shorter \cup {Append(ts, t) : ts \in shorter, t \in HeaderAlphabet}

HeaderStreams ==
    StreamsOf(MaxHeaderTokens)
    \cup { g.ts : g \in {HdrPlain, HdrFull, HdrArray, HdrNoComma, HdrBareComma,
                         HdrBogus, HdrBadType, HdrBadDescription, HdrTrailing} }

-----------------------------------------------------------------------------
(* The inputs of Responses::to_tokens: lists of Response records.           *)

Hdr(n, m, d) == [name |-> n, media_type |-> m, description |-> d]

HeaderSeqs ==
    { <<>>,
      <<Hdr("x-token", SomeMedia(FALSE, "String"), SomeString("desc")),
        Hdr("y", NoMedia, NoString)>>,
      <<Hdr("y", SomeMedia(TRUE, "Foo"), NoString),
        Hdr("x-token", NoMedia, SomeString("d"))>> }

ResponseRecords ==
    { [status_code |-> sd[1], description |-> sd[2], response_type |-> b,
       content_type |-> c, headers |-> hs] :
        sd \in {<<0, "">>, <<200, "a">>, <<200, "b">>},
        b \in {NoMedia, SomeMedia(FALSE, "i32"), SomeMedia(TRUE, "Foo")},
        c \in {NoString, SomeString("text/xml")},
        hs \in HeaderSeqs }

RECURSIVE RecordLists(_)
RecordLists(n) ==
    IF n = 0
    THEN {<<>>}
    ELSE LET shorter == RecordLists(n - 1)
         IN  shorter \cup {Append(l, r) : l \in shorter, r \in ResponseRecords}

-----------------------------------------------------------------------------
(* Specifications.                                                          *)

Idle ==
    /\ pos = 0
    /\ key = ""
    /\ response = DefaultResponse
    /\ header = NewHeader("")
    /\ err = NoError
    /\ ei = 0
    /\ out = <<>>

\* Response::parse is handed the token stream of one response entry.
InitResponse == input \in Entries /\ pc = "key" /\ records = <<>> /\ Idle

\* Header::parse is handed the token stream of one header sub-group.
InitHeader == input \in HeaderStreams /\ pc = "header" /\ records = <<>> /\ Idle

\* Responses::to_tokens is handed a slice of Response records.
InitEmit == input = <<>> /\ pc = "emit" /\ records \in RecordLists(MaxRecords) /\ Idle

Init == InitResponse \/ InitHeader \/ InitEmit

Parse ==
    \/ ReadKey
    \/ ParseEq
    \/ ParseStatus
    \/ ParseDescription
    \/ ParseBody
    \/ ParseContentType
    \/ ParseHeaders
    \/ Separator

Emit ==
    \/ EmitNew
    \/ EmitResponse
    \/ EmitReturn

Next == Parse \/ ParseHeaderEntry \/ Handoff \/ Emit

Spec == Init /\ [][Next]_vars

\* The steps of one response entry: its parse, then its emission.
ResponseNext == Parse \/ Handoff \/ Emit

\* One response entry, parsed and emitted in one synchronous call that runs to
\* completion: a step that can be taken is taken.
LiveSpec == InitResponse /\ [][ResponseNext]_vars /\ WF_vars(ResponseNext)


-----------------------------------------------------------------------------
(* Vocabulary of the properties: what an entry declares, read off the token *)
(* stream itself.                                                           *)

\* The positions of input where field key k is followed by `=`.
Occurrences(k) ==
    {i \in 1..(Len(input) - 2) : input[i] = Ident(k) /\ input[i + 1] = EqTok}

\* The value token of the last occurrence of field key k.
LastValue(k) ==
    LET last == CHOOSE i \in Occurrences(k) : \A j \in Occurrences(k) : j <= i
    IN  input[last + 2]

\* type_expr := IDENT | "[" IDENT "]"
IsTypeExpr(t) ==
    \/ t.k = "ident"
    \/ t.k = "bracket" /\ Len(t.ts) = 1 /\ t.ts[1].k = "ident"

\* The type reference a type expression token denotes.
MediaOf(t) ==
    IF t.k = "ident" THEN SomeMedia(FALSE, t.s) ELSE SomeMedia(TRUE, t.ts[1].s)

\* The sub-groups of a headers bracket group, in declaration order.
SubGroups(t) == SelectSeq(t.ts, IsGroup)

\* The header names a headers bracket group declares, in declaration order.
DeclaredNames(t) == [i \in 1..Len(SubGroups(t)) |-> SubGroups(t)[i].ts[1].s]

HeaderNames(hs) == [i \in 1..Len(hs) |-> hs[i].name]

IsContent(c) == c.call = "with_content"

IsHeaderAttachment(c) == c.call = "with_header"

\* The decimal rendering of the status codes the inputs use.
StatusKey(n) == CASE n = 0 -> "0" [] n = 200 -> "200" [] n = 404 -> "404"

-----------------------------------------------------------------------------
(* C1: for every record the emitter has folded, a content entry is emitted  *)
(* exactly when the record has a body; its key is the explicit content_type *)
(* when there is one, otherwise "text/plain" for a primitive body type and  *)
(* "application/json" for any other; a record without body gets no content  *)
(* entry even when content_type is set.                                     *)
Thm_C1 ==
    \A i \in 1..ei :
        LET r == records[i]
            contents == SelectSeq(out[i + 1].arg, IsContent)
        IN  /\ Len(contents) = (IF r.response_type.some THEN 1 ELSE 0)
            /\ r.response_type.some =>
                 contents[1].key =
                    (IF r.content_type.some
                     THEN r.content_type.v
                     ELSE IF r.response_type.ty \in PrimitiveTypes
                          THEN "text/plain"
                          ELSE "application/json")

\* Emission finished with an explicit content type on a primitive body, an
\* inferred one on a composite body.
W_C1 ==
    /\ pc = "finished"
    /\ Len(records) = 2
    /\ records[1].response_type = SomeMedia(FALSE, "i32")
    /\ records[1].content_type = SomeString("text/xml")
    /\ records[2].response_type = SomeMedia(TRUE, "Foo")
    /\ records[2].content_type = NoString
    /\ out[3].arg[2].key = "application/json"


-----------------------------------------------------------------------------
\* The next token is an identifier at the key position of a response entry and
\* is outside the vocabulary of response fields.
UnknownResponseKeyNext ==
    /\ pc = "key"
    /\ PeekKind(input, pos, "ident")
    /\ input[pos + 1].s \notin {"status", "description", "body", "content_type", "headers"}

\* The index in header stream ts of the identifier at its key position (after the
\* name, an optional `= type` and an optional comma); 0 when there is none.
HeaderKeyIndex(ts) ==
    LET typed == Len(ts) >= 2 /\ ts[2] = EqTok
        a == IF typed THEN 3 ELSE 1
        b == IF Len(ts) > a /\ ts[a + 1] = CommaTok THEN a + 1 ELSE a
    IN  IF /\ Len(ts) >= 1 /\ ts[1].k = "str"
           /\ typed => (Len(ts) >= 3 /\ IsTypeExpr(ts[3]))
           /\ Len(ts) > b /\ ts[b + 1].k = "ident"
        THEN b + 1
        ELSE 0

UnknownHeaderKey(ts) ==
    HeaderKeyIndex(ts) > 0 /\ ts[HeaderKeyIndex(ts)].s # "description"

\* The headers field is about to be parsed, its list is well formed, and sub-group
\* i is the first that does not parse and has an unknown identifier as its key.
UnknownHeaderKeyNext(i) ==
    /\ pc = "value" /\ key = "headers"
    /\ HeaderGroups(input, pos).ok
    /\ i \in 1..Len(HeaderGroups(input, pos).groups)
    /\ UnknownHeaderKey(HeaderGroups(input, pos).groups[i].ts)
    /\ \A j \in 1..(i - 1) : Parse2Header(HeaderGroups(input, pos).groups[j].ts).ok

(* C2: an identifier read at a key position that is outside the vocabulary  *)
(* ({status, description, body, content_type, headers} in a response entry, *)
(* {description} in a header) ends the parse in an error that names the     *)
(* identifier and lists the vocabulary, and no Response or Header record is *)
(* produced, at any position of the entry.                                  *)
Thm_C2 ==
    /\ [][UnknownResponseKeyNext =>
            /\ pc' = "failed"
            /\ err'.kind = "UnknownField"
            /\ err'.ident = input[pos + 1].s
            /\ err'.vocab = <<"status", "description", "body", "content_type", "headers">>
            /\ records' = <<>> /\ out' = <<>>]_vars
    /\ [][(pc = "header" /\ UnknownHeaderKey(input)) =>
            /\ pc' = "header_failed"
            /\ err'.kind = "UnknownField"
            /\ err'.ident = input[HeaderKeyIndex(input)].s
            /\ err'.vocab = <<"description">>
            /\ header' = NewHeader("")]_vars
    /\ [][\A i \in 1..2 : UnknownHeaderKeyNext(i) =>
            /\ pc' = "failed"
            /\ err'.kind = "UnknownField"
            /\ err'.ident = "bogus"
            /\ err'.vocab = <<"description">>
            /\ err'.sub = i
            /\ response' = response /\ records' = <<>> /\ out' = <<>>]_vars
    /\ [](pc \in {"failed", "header_failed"} => records = <<>> /\ out = <<>>)

\* An unknown key after a parsed field ended the parse.
W_C2 ==
    /\ pc = "failed"
    /\ err.kind = "UnknownField"
    /\ err.ident = "foo"
    /\ response.status_code = 200
    /\ pos = Len(input) - 2

-----------------------------------------------------------------------------
(* C3: the emitter produces exactly one response insertion per record, in   *)
(* list order (records with equal status codes are neither merged nor       *)
(* reordered), and in each response one header attachment per Header, in    *)
(* the order of the record's headers; parsing the headers field keeps the   *)
(* declaration order of the header sub-groups.                              *)
Thm_C3 ==
    /\ pc \in {"each", "finished"} =>
         /\ Len(out) = ei + 1
         /\ out[1].call = "Responses::new"
         /\ \A i \in 1..ei :
              /\ out[i + 1].call = "with_response"
              /\ out[i + 1].key = StatusKey(records[i].status_code)
              /\ out[i + 1].arg[1].call = "Response::new"
              /\ out[i + 1].arg[1].key = records[i].description
              /\ HeaderNames(records[i].headers)
                   = [j \in 1..Len(records[i].headers) |->
                        SelectSeq(out[i + 1].arg, IsHeaderAttachment)[j].key]
              /\ Len(SelectSeq(out[i + 1].arg, IsHeaderAttachment))
                   = Len(records[i].headers)
    /\ pc = "finished" => ei = Len(records)
    /\ (pc = "done" /\ Occurrences("headers") # {}) =>
         HeaderNames(response.headers) = DeclaredNames(LastValue("headers"))

\* Two records of equal status, each with its own two headers, were emitted.
W_C3 ==
    /\ pc = "finished"
    /\ Len(records) = 2
    /\ records[1].status_code = records[2].status_code
    /\ HeaderNames(records[1].headers) = <<"x-token", "y">>
    /\ HeaderNames(records[2].headers) = <<"y", "x-token">>
    /\ out[3].arg[2].key = "y"

-----------------------------------------------------------------------------
(* C5: when the token after a recognized response key is not `=`, the parse *)
(* fails with a syntax error that refers to the expected `=`, the value     *)
(* sub-parser is not run and no Response record is produced; an unknown key *)
(* is reported as an unknown field whatever follows it.                     *)
Thm_C5 ==
    /\ [](pc = "eq" =>
            /\ key \in {"status", "description", "body", "content_type", "headers"}
            /\ input[pos] = Ident(key))
    /\ [][(pc = "eq" /\ ~(Len(input) > pos /\ input[pos + 1] = EqTok)) =>
            /\ pc' = "failed"
            /\ err'.kind = "SyntaxError"
            /\ err'.msg = "expected euqals sign token (=)"
            /\ response' = response /\ pos' = pos
            /\ records' = <<>> /\ out' = <<>>]_vars
    /\ [][UnknownResponseKeyNext => pc' = "failed" /\ err'.kind = "UnknownField"]_vars

\* The headers key, after a parsed field, was followed by a bracket group.
W_C5 ==
    /\ pc = "failed"
    /\ err.msg = "expected euqals sign token (=)"
    /\ key = "headers"
    /\ pos > 1
    /\ input[pos + 1].k = "bracket"


-----------------------------------------------------------------------------
-----------------------------------------------------------------------------
-----------------------------------------------------------------------------
(* C9: the emitter attaches every Header under its name, built from the     *)
(* resolved (array-aware) type when a type was written and as the default   *)
(* header when none was, with a description exactly when the header has     *)
(* one; ("x-token") parses to name only, ("x-token" = String,               *)
(* description = "desc") to name, type and description.                     *)
Thm_C9 ==
    /\ \A i \in 1..ei :
         LET hs == records[i].headers
             atts == SelectSeq(out[i + 1].arg, IsHeaderAttachment)
         IN  /\ Len(atts) = Len(hs)
             /\ \A j \in 1..Len(hs) :
                  LET h == hs[j]
                      t == atts[j].arg
                  IN  /\ atts[j].key = h.name
                      /\ Len(t) = (IF h.description.some THEN 2 ELSE 1)
                      /\ t[1].call = (IF h.media_type.some THEN "Header::new"
                                                           ELSE "Header::default")
                      /\ h.media_type.some =>
                           t[1].arg = [is_array |-> h.media_type.is_array,
                                       ty |-> h.media_type.ty]
                      /\ h.description.some =>
                           /\ t[2].call = "with_description"
                           /\ t[2].key = h.description.v
    /\ (pc = "header_done" /\ input = <<LitStr("x-token")>>) =>
         /\ header = Hdr("x-token", NoMedia, NoString)
         /\ NewHeaderTokens(header) = <<Call("Header::default", "", NoArg)>>
    /\ (pc = "header_done" /\ input = HdrFull.ts) =>
         /\ header = Hdr("x-token", SomeMedia(FALSE, "String"), SomeString("desc"))
         /\ Len(NewHeaderTokens(header)) = 2
         /\ NewHeaderTokens(header)[1].call = "Header::new"
         /\ NewHeaderTokens(header)[2].key = "desc"

\* A parsed entry with a typed, described header was emitted.
W_C9 ==
    /\ pc = "finished"
    /\ Len(input) > 0
    /\ Len(response.headers) = 1
    /\ response.headers[1] = Hdr("x-token", SomeMedia(FALSE, "String"), SomeString("desc"))
    /\ out[2].arg[2].call = "with_header"
    /\ Len(out[2].arg[2].arg) = 2


-----------------------------------------------------------------------------
(* The published grammar.                                                   *)
(*   response_entry := field ("," field)* [","]                             *)
(*   field          := "status" "=" INT | "description" "=" STR             *)
(*                   | "body" "=" type_expr | "content_type" "=" STR        *)
(*                   | "headers" "=" "[" header_entry ("," header_entry)*   *)
(*                                       [","] "]"                          *)
(*   header_entry   := STR ["=" type_expr] ["," "description" ["="] STR]    *)

InHeaderGrammar(ts) ==
    LET a == IF Len(ts) >= 3 /\ ts[2] = EqTok /\ IsTypeExpr(ts[3]) THEN 3 ELSE 1
    IN  /\ Len(ts) >= 1
        /\ ts[1].k = "str"
        /\ \/ Len(ts) = a
           \/ /\ Len(ts) = a + 3
              /\ ts[a + 1] = CommaTok
              /\ ts[a + 2] = Ident("description")
              /\ ts[a + 3].k = "str"
           \/ /\ Len(ts) = a + 4
              /\ ts[a + 1] = CommaTok
              /\ ts[a + 2] = Ident("description")
              /\ ts[a + 3] = EqTok
              /\ ts[a + 4].k = "str"

\* header_entry ("," header_entry)* [","] from cursor p
RECURSIVE InHeaderListGrammar(_, _)
InHeaderListGrammar(ts, p) ==
    /\ p + 1 <= Len(ts)
    /\ ts[p + 1].k = "paren"
    /\ InHeaderGrammar(ts[p + 1].ts)
    /\ \/ p + 1 = Len(ts)
       \/ /\ ts[p + 2] = CommaTok
          /\ (p + 2 = Len(ts) \/ InHeaderListGrammar(ts, p + 2))

\* A field stands at cursor p (it takes three tokens).
FieldAt(ts, p) ==
    /\ p + 3 <= Len(ts)
    /\ ts[p + 1].k = "ident"
    /\ ts[p + 2] = EqTok
    /\ LET k == ts[p + 1].s
           v == ts[p + 3]
       IN  \/ k = "status" /\ v.k = "int"
           \/ k = "description" /\ v.k = "str"
           \/ k = "body" /\ IsTypeExpr(v)
           \/ k = "content_type" /\ v.k = "str"
           \/ k = "headers" /\ v.k = "bracket" /\ InHeaderListGrammar(v.ts, 0)

\* field ("," field)* [","] from cursor p
RECURSIVE InResponseGrammar(_, _)
InResponseGrammar(ts, p) ==
    /\ FieldAt(ts, p)
    /\ \/ p + 3 = Len(ts)
       \/ /\ ts[p + 4] = CommaTok
          /\ (p + 4 = Len(ts) \/ InResponseGrammar(ts, p + 4))

(* C4: the parsers accept exactly the token sequences of the published      *)
(* grammar: an accepted response entry or header entry is in the grammar,   *)
(* and every sequence outside it is rejected (two fields with no comma      *)
(* between them, a header description not preceded by a comma, a header     *)
(* ending in a bare comma, ...).                                            *)
C4_Claim ==
    /\ pc = "done" => InResponseGrammar(input, 0)
    /\ pc = "failed" => ~InResponseGrammar(input, 0)
    /\ pc = "header_done" => InHeaderGrammar(input)
    /\ pc = "header_failed" => ~InHeaderGrammar(input)

\* The part of C4 that the parsers do satisfy: nothing of the grammar is rejected.
C4_GrammarAccepted ==
    /\ pc = "failed" => ~InResponseGrammar(input, 0)
    /\ pc = "header_failed" => ~InHeaderGrammar(input)

\* The response parser accepted two fields with no comma between them.
C4_NoCommaAccepted ==
    /\ pc = "done"
    /\ input = Field("status", LitInt(200)) \o Field("description", LitStr("a"))

\* The header parser accepted a description segment not preceded by a comma,
\* and a header ending in a bare comma.
C4_HeaderLenient ==
    /\ pc = "header_done"
    /\ input \in { <<LitStr("x"), Ident("description"), LitStr("x")>>,
                   <<LitStr("x"), CommaTok>> }


-----------------------------------------------------------------------------
\* The headers field at the cursor: its bracket list as the parser splits it.
ListAtCursor == HeaderGroups(input, pos)

(* C6 as stated: a failed parse yields one error and no Response record,    *)
(* and the error is the first one in left-to-right token order; so when     *)
(* the error is about the shape of the headers list, every header sub-group *)
(* to the left of the malformed place is free of errors.                    *)
C6_FirstInTokenOrder ==
    pc = "failed" =>
        /\ err.kind # "None"
        /\ records = <<>> /\ out = <<>>
        /\ (key = "headers" /\ err.msg = MsgHeadersList /\ PeekKind(input, pos, "bracket")) =>
             \A j \in 1..Len(ListAtCursor.groups) :
                 Parse2Header(ListAtCursor.groups[j].ts).ok

(* C6, amended: a failed parse yields one error and no Response record, and *)
(* nothing runs after it.  The error stands at the cursor: at the token     *)
(* that is not the expected identifier, `=` or value, or in the headers     *)
(* field at the cursor.  In a headers field the bracket list is split into  *)
(* sub-groups first: a malformed list is reported whatever the sub-groups   *)
(* hold, otherwise the error is that of the first sub-group that fails,     *)
(* all sub-groups before it being parsed.  An accepted entry has no         *)
(* failing sub-group in any of its headers fields: none is dropped.         *)
Thm_C6 ==
    /\ pc = "failed" =>
         /\ err.kind # "None"
         /\ records = <<>> /\ out = <<>>
         /\ ~ENABLED Next
         /\ err.msg = MsgNoIdent => ~(Len(input) > pos /\ input[pos + 1].k = "ident")
         /\ err.msg = MsgNoEq => ~(Len(input) > pos /\ input[pos + 1] = EqTok)
         /\ (err.kind = "UnknownField" /\ err.sub = 0) => input[pos] = Ident(err.ident)
         /\ err.msg = MsgHeadersList =>
              /\ key = "headers"
              /\ ~(Len(input) > pos /\ input[pos + 1].k = "bracket" /\ ListAtCursor.ok)
         /\ err.sub > 0 =>
              /\ key = "headers"
              /\ ListAtCursor.ok
              /\ err.sub <= Len(ListAtCursor.groups)
              /\ \A j \in 1..(err.sub - 1) : Parse2Header(ListAtCursor.groups[j].ts).ok
              /\ ~Parse2Header(ListAtCursor.groups[err.sub].ts).ok
              /\ err = [Parse2Header(ListAtCursor.groups[err.sub].ts).err
                          EXCEPT !.sub = err.sub]
    /\ pc \in {"done", "emit", "each", "finished"} =>
         /\ err = NoError
         /\ \A i \in Occurrences("headers") :
              \A j \in 1..Len(SubGroups(input[i + 2])) :
                  Parse2Header(SubGroups(input[i + 2])[j].ts).ok

\* The second sub-group of a headers field failed, with tokens left after the field.
W_C6 ==
    /\ pc = "failed"
    /\ key = "headers"
    /\ err.sub = 2
    /\ err.kind = "UnknownField"
    /\ Len(input) > pos + 1


-----------------------------------------------------------------------------
(* C10: on every token sequence the response parser stops, with a Response  *)
(* record or an error: each iteration of the field loop consumes a token or *)
(* fails, the loop exits exactly when no token remains after a field and    *)
(* its optional trailing comma, and the emitter finishes after one pass     *)
(* over the records and their headers.                                      *)
Thm_C10 ==
    /\ (pc = "key") ~> (pc \in {"done", "failed"})
    /\ (pc \in {"done", "emit"}) ~> (pc = "finished")
    /\ [][pc = "key" => (pc' = "failed" \/ pos' = pos + 1)]_vars
    /\ [][pos' >= pos]_vars
    /\ [][pc = "sep" =>
            LET rest == IF Len(input) > pos /\ input[pos + 1] = CommaTok
                        THEN pos + 1 ELSE pos
            IN  /\ pos' = rest
                /\ pc' = (IF rest = Len(input) THEN "done" ELSE "key")]_vars
    /\ [](pc = "done" => pos = Len(input))
    /\ [][pc = "each" /\ pc' = "each" => ei' = ei + 1 /\ Len(out') = Len(out) + 1]_vars
    /\ [](pc = "finished" => ei = Len(records) /\ Len(out) = Len(records) + 1)

\* An entry of two fields ending in a comma was parsed to its end and emitted.
W_C10 ==
    /\ pc = "finished"
    /\ Len(input) = 8
    /\ input[8] = CommaTok
    /\ pos = 8
    /\ Len(out) = 2


====
